---- MODULE Spec2Model ----
(***************************************************************************)
(* A model of pyveloedi/veloconnect.py: the Veloconnect session (Context), *)
(* its lazily resolved binding table (GetProfile.get_params), the          *)
(* dual-transport dispatcher with its retry loop and response-code         *)
(* translation (Context.dispatch_request), and the methods built on it:    *)
(* catalogue search, item retrieval, the order lifecycle and rollback.     *)
(***************************************************************************)
EXTENDS Integers, Sequences, FiniteSets, TLC

(***************************************************************************)
(* Bounds of the model.                                                    *)
(***************************************************************************)
\* largest retry budget (MAX_FETCH_TRIES) a session is configured with
MaxBudget == 3
\* most Implements entries of a capability document given to get_params
MaxImpl == 3
\* most Implements entries of a capability document served to a session
MaxSessionImpl == 2
\* most capability-discovery requests one session sends
MaxDiscoveries == 2
\* most item nodes in a response to an item lookup
MaxItems == 2
\* largest total count a search reports
MaxCount == 2
\* largest limit a caller passes to a search
MaxLimit == 1

(***************************************************************************)
(* Error codes and their catalogue.                                        *)
(***************************************************************************)
ERR_NONE == 200
ERR_ANY == 400
ERR_NOT_SUPPORTED == 404
ERR_WRONG_REQUEST == 405
ERR_OLD_REQUEST == 406
ERR_UNKNOWN_USER == 410
ERR_AUTH_FAILED == 411
ERR_UNKNOWN_SELLERS_ID == 415
ERR_UNKNOWN_TRANSACTION_ID == 420
ERR_CANT_CREATE_TRANSACTION == 421
ERR_ILLEGAL_OP == 430
ERR_ILLEGAL_ISTEST == 435
ERR_INTERNAL == 500
ERR_INVALID_MAX_TRIES == 513
ERR_MAX_TRIES_REACHED == 514
ERR_MULTIPLE_ELEMENT_FOUND == 460
ERR_ELEMENT_NOT_FOUND == 461

ERR_CODES ==
    (ERR_ANY :> "General error.")
    @@ (ERR_NOT_SUPPORTED :> "Request not supported.")
    @@ (ERR_WRONG_REQUEST :> "Wrong request.")
    @@ (ERR_OLD_REQUEST :> "Wrong request. (Old version)")
    @@ (ERR_UNKNOWN_USER :> "Unknown user.")
    @@ (ERR_AUTH_FAILED :> "Authentication failed.")
    @@ (ERR_UNKNOWN_SELLERS_ID :> "Unknown sellers ID")
    @@ (ERR_UNKNOWN_TRANSACTION_ID :> "Unknown transaction ID")
    @@ (ERR_CANT_CREATE_TRANSACTION :> "Can't create further transactions.")
    @@ (ERR_ILLEGAL_OP :> "Operation not possible in current transaction state.")
    @@ (ERR_ILLEGAL_ISTEST :> "IsTest not allowed in current transaction state.")
    @@ (ERR_INTERNAL :> "Internal error.")
    @@ (ERR_INVALID_MAX_TRIES :> "Max tries values should be greater than 0.")
    @@ (ERR_MAX_TRIES_REACHED :> "Max tries reached.")
    @@ (ERR_MULTIPLE_ELEMENT_FOUND :> "More than one elements found.")
    @@ (ERR_ELEMENT_NOT_FOUND :> "Element not found")

(***************************************************************************)
(* Outcomes of a call: nothing yet, a returned value, or a raised          *)
(* exception.  msg is the exception's message: the catalogue text followed *)
(* by ' (Code: %d)' % code.                                                *)
(***************************************************************************)
NoMsg == [text |-> "", code |-> 0]

\* the text of vct:TransactionID in a document that has no such node
NoTan == "<no TransactionID>"

\* what the operations read in a response besides its response code: the
\* name of the root element; its vco:ItemDetail children in document order,
\* each as TRUE when it carries a replacement identifier; whether the root
\* element, mapped as a product, has a replacement identifier; the text of
\* vct:TransactionID and the integer in vcc:TotalCount
NoPayload == [name |-> "Response", items |-> <<>>, repl |-> FALSE,
              tan |-> NoTan, count |-> 0]

\* a parsed document: the serial number of the body it was parsed from, the
\* texts of its vct:ResponseCode nodes, as integers, and its payload
NoRoot == [serial |-> 0, codes |-> <<>>, data |-> NoPayload]

Pending == [kind |-> "none", exc |-> "", code |-> 0, msg |-> NoMsg,
            value |-> NoRoot, cls |-> "", n |-> 0, list |-> <<>>]

Return(v) == [Pending EXCEPT !.kind = "return", !.value = v]

ReturnClass(c) == [Pending EXCEPT !.kind = "return", !.cls = c]

Raise(e) == [Pending EXCEPT !.kind = "raise", !.exc = e]

VeloConnectException_NoCode(code) ==
    IF code \in DOMAIN ERR_CODES
    THEN [Pending EXCEPT !.kind = "raise", !.exc = "VeloConnectException",
                         !.msg = [text |-> ERR_CODES[code], code |-> code]]
    ELSE Raise("KeyError")

\* VeloConnectException(code): the constructor indexes ERR_CODES, so a code
\* outside the catalogue raises KeyError instead of building the exception
VeloConnectException(code) ==
    IF code \in DOMAIN ERR_CODES
    THEN [Pending EXCEPT !.kind = "raise", !.exc = "VeloConnectException",
                         !.code = code,
                         !.msg = [text |-> ERR_CODES[code], code |-> code]]
    ELSE Raise("KeyError")

(***************************************************************************)
(* The session's binding table: None, or a dict from operation name to     *)
(* (binding, uri).                                                         *)
(***************************************************************************)
EmptyDict == [n \in {} |-> <<"", "">>]

None == [isNone |-> TRUE, dict |-> EmptyDict]

Dict(d) == [isNone |-> FALSE, dict |-> d]

\* the session's base endpoint, Context._url
BaseUrl == "base"

(***************************************************************************)
(* Capability documents: a response code and a list of Implements entries, *)
(* each with an operation name, a Binding text (or no Binding node) and a  *)
(* URI text (or no URI node).                                              *)
(***************************************************************************)
NoBinding == "<no Binding>"
NoURI == "<no URI>"

XmlBindings == {"XML-POST", "XML-POST-S"}

ProfileOps == {"TextSearch", "Order"}
ProfileBindings == {"URL", "XML-POST", "XML-POST-S", NoBinding}
ProfileURIs == {NoURI, "uriA"}
ProfileCodes == {ERR_NONE, ERR_UNKNOWN_USER}

Implements == [op : ProfileOps, binding : ProfileBindings, uri : ProfileURIs]

SeqsUpTo(S, n) == UNION {[1..k -> S] : k \in 0..n}

Profiles(n) == [code : ProfileCodes, impls : SeqsUpTo(Implements, n)]

\* uri is not None and uri.text or self._ctx._url
UriText(uri, url) == IF uri # NoURI /\ uri # "" THEN uri ELSE url

\* one iteration of the loop of get_params over the Implements entries
AddImpl_LastWins(bindings, impl, url) ==
    IF impl.binding \in XmlBindings
    THEN [n \in DOMAIN bindings \cup {impl.op} |->
             IF n = impl.op THEN <<"XML-POST", UriText(impl.uri, url)>>
             ELSE bindings[n]]
    ELSE [n \in DOMAIN bindings \cup {impl.op} |->
             IF n = impl.op THEN <<impl.binding, UriText(impl.uri, url)>>
             ELSE bindings[n]]

AddImpl(bindings, impl, url) ==
    IF impl.binding \in XmlBindings
    THEN [n \in DOMAIN bindings \cup {impl.op} |->
             IF n = impl.op THEN <<"XML-POST", UriText(impl.uri, url)>>
             ELSE bindings[n]]
    ELSE IF impl.op \notin DOMAIN bindings
    THEN [n \in DOMAIN bindings \cup {impl.op} |->
             IF n = impl.op THEN <<impl.binding, UriText(impl.uri, url)>>
             ELSE bindings[n]]
    ELSE bindings

\* the loop of get_params from entry i on; binding.text of an entry without
\* a Binding node raises AttributeError
RECURSIVE BuildBindings(_, _, _, _)
BuildBindings(impls, i, bindings, url) ==
    IF i > Len(impls) THEN [ok |-> TRUE, bindings |-> bindings]
    ELSE IF impls[i].binding = NoBinding
    THEN [ok |-> FALSE, bindings |-> EmptyDict]
    ELSE BuildBindings(impls, i + 1, AddImpl(bindings, impls[i], url), url)

\* GetProfile.get_params on a parsed capability document; the document's
\* response code is never read
get_params(doc, url) == BuildBindings(doc.impls, 1, EmptyDict, url)

NoProfile == [code |-> 0, impls |-> <<>>]

(***************************************************************************)
(* The operation classes: the name each is bound under and the renderings  *)
(* it defines (the others are inherited from Operation and raise           *)
(* NotImplementedError).                                                   *)
(***************************************************************************)
Operations ==
    {"Rollback", "GetProfile", "GetClassificationScheme", "GetItemDetails",
     "GetItemDetailsList", "CreateTextSearch", "SearchResult",
     "SearchReadResult", "CreateOrder", "UpdateOrder", "ViewOrder",
     "FinishOrder"}

\* the _name attribute of each operation class
OperationName(cls) ==
    CASE cls = "Rollback" -> "Rollback"
      [] cls = "GetProfile" -> "GetProfile"
      [] cls = "GetClassificationScheme" -> "GetClassificationScheme"
      [] cls = "GetItemDetails" -> "GetItemDetails"
      [] cls = "GetItemDetailsList" -> "GetItemDetailsList"
      [] cls \in {"CreateTextSearch", "SearchResult", "SearchReadResult"}
           -> "TextSearch"
      [] cls \in {"CreateOrder", "UpdateOrder", "ViewOrder", "FinishOrder"}
           -> "Order"

\* the classes that override get_url_args
HasUrlArgs(cls) ==
    cls \in {"Rollback", "GetItemDetails", "GetItemDetailsList",
             "CreateTextSearch", "SearchResult", "SearchReadResult",
             "CreateOrder", "FinishOrder"}

\* the classes that override get_xml
HasXml(cls) == cls \in Operations \ {"GetProfile"}

\* the attributes execute stores on a request before dispatching it
NoArgs == [tan |-> NoTan, offset |-> 0, limit |-> 0]

\* the names of the pairs get_url_args returns
UrlArgs(cls) ==
    CASE cls \in {"Rollback", "FinishOrder"} -> {"RequestName", "TransactionID"}
      [] cls \in {"GetItemDetails", "GetItemDetailsList"}
           -> {"RequestName", "SellersItemIdentification"}
      [] cls = "CreateTextSearch" -> {"RequestName", "SearchString"}
      [] cls \in {"SearchResult", "SearchReadResult"}
           -> {"RequestName", "TransactionID", "StartIndex", "Count",
               "ResultFormat"}
      [] cls = "CreateOrder" -> {"RequestName", "Quantity", "quantityUnitCode"}
      [] OTHER -> {}

\* self._xml_auth: BuyersID and Credential(Password)
XmlAuth == {"BuyersID", "Password"}

\* self._xml_istest
XmlIsTest == {"IsTest"}

\* the children of the document get_xml returns
XmlChildren(cls) ==
    CASE cls = "Rollback" -> XmlAuth \cup {"TransactionID"}
      [] cls = "GetClassificationScheme" -> XmlAuth
      [] cls = "GetItemDetails" -> XmlAuth \cup {"SellersItemIdentification"}
      [] cls = "GetItemDetailsList" -> XmlAuth \cup {"RequestEntry"}
      [] cls = "CreateTextSearch" -> XmlAuth \cup {"SearchString"}
      [] cls \in {"SearchResult", "SearchReadResult"}
           -> XmlAuth \cup {"TransactionID", "StartIndex", "Count",
                            "ResultFormat"}
      [] cls = "CreateOrder" -> XmlAuth \cup XmlIsTest \cup {"OrderRequestLine"}
      [] cls = "UpdateOrder"
           -> XmlAuth \cup {"TransactionID"} \cup XmlIsTest
              \cup {"OrderRequestLine"}
      [] cls \in {"ViewOrder", "FinishOrder"}
           -> XmlAuth \cup {"TransactionID"} \cup XmlIsTest
      [] OTHER -> {}

\* an HTTP request on the wire: its method, its endpoint, the names of the
\* fields it carries and the values of the request's attributes among them
NoWire == [method |-> "", uri |-> "", fields |-> {}, args |-> NoArgs]

\* query_get appends BuyersID, Password and IsTest to the request's pairs
query_get(uri, cls, a) ==
    [method |-> "GET", uri |-> uri,
     fields |-> UrlArgs(cls) \cup {"BuyersID", "Password", "IsTest"},
     args |-> a]

\* query_post sends the rendered document as it is
query_post(uri, cls, a) ==
    [method |-> "POST", uri |-> uri, fields |-> XmlChildren(cls), args |-> a]

(***************************************************************************)
(* The transport: what one HTTP exchange gives back.  Either the HTTP      *)
(* client raises (ConnectionError), or a body comes back: not well-formed, *)
(* or a well-formed document with the texts of its ResponseCode nodes.     *)
(* serial numbers the bodies of one dispatch call in the order received.   *)
(***************************************************************************)
ResponseCodes ==
    {ERR_NONE, ERR_NOT_SUPPORTED, ERR_UNKNOWN_USER, ERR_INTERNAL, 999}

OrderOperations == {"CreateOrder", "UpdateOrder", "ViewOrder", "FinishOrder"}

\* the codes a partner answers a request of class cls with: a transaction
\* request may also be refused as illegal in the transaction's state
ResponseCodesOf(cls) ==
    IF cls \in OrderOperations \cup {"Rollback"}
    THEN ResponseCodes \cup {ERR_ILLEGAL_OP}
    ELSE ResponseCodes

CodeLists(cls) == {<<>>} \cup {<<c>> : c \in ResponseCodesOf(cls)}

Tans == {"tanA", "tanB"}

\* the payloads of the success responses to a request of class cls
Payloads(cls) ==
    CASE cls = "CreateTextSearch"
           -> {[NoPayload EXCEPT !.tan = t, !.count = n] :
                  t \in Tans, n \in {0, MaxCount}}
      [] cls = "GetItemDetails"
           -> {[NoPayload EXCEPT !.name = nm, !.items = [i \in 1..n |-> FALSE],
                                 !.repl = r] :
                  nm \in {"GetItemDetailsResponse", "Response"},
                  n \in 0..MaxItems, r \in BOOLEAN}
      [] cls = "GetItemDetailsList"
           -> {[NoPayload EXCEPT !.name = "GetItemDetailsListResponse",
                                 !.items = s] :
                  s \in SeqsUpTo(BOOLEAN, MaxItems)}
      [] cls = "SearchReadResult"
           -> {[NoPayload EXCEPT !.name = "SearchResultResponse",
                                 !.items = s] :
                  s \in SeqsUpTo(BOOLEAN, MaxItems)}
      [] cls \in OrderOperations
           -> {[NoPayload EXCEPT !.tan = t] : t \in Tans}
      [] OTHER -> {NoPayload}

TransportResults(cls, serial) ==
    {[t |-> "ConnectionError", wf |-> FALSE, serial |-> serial, codes |-> <<>>,
      data |-> NoPayload],
     [t |-> "body", wf |-> FALSE, serial |-> serial, codes |-> <<>>,
      data |-> NoPayload]}
    \cup {[t |-> "body", wf |-> TRUE, serial |-> serial, codes |-> cs,
           data |-> NoPayload] : cs \in CodeLists(cls) \ {<<ERR_NONE>>}}
    \cup {[t |-> "body", wf |-> TRUE, serial |-> serial,
           codes |-> <<ERR_NONE>>, data |-> d] : d \in Payloads(cls)}

Malformed(res) == res.t = "body" /\ ~res.wf

\* etree.fromstring(res): the parsed root, or XMLSyntaxError
fromstring(res) ==
    IF res.wf
    THEN [ok |-> TRUE, root |-> [serial |-> res.serial, codes |-> res.codes,
                                 data |-> res.data]]
    ELSE [ok |-> FALSE, root |-> NoRoot]

\* the capability documents served to a session: their entries name the
\* operations the entity methods dispatch, and give no URI
SessionOps == {"TextSearch", "Order", "Rollback", "GetItemDetails"}

\* the operation names the catalogue methods dispatch under, and the names
\* the order methods dispatch under
CatalogNames == {"TextSearch", "GetItemDetails"}

\* the names the item retrievals dispatch under
ReadNames == {"TextSearch", "GetItemDetails", "GetItemDetailsList"}
OrderNames == {"Order", "Rollback"}

SessionImplements(ops) ==
    [op : ops, binding : {"URL", "XML-POST", NoBinding}, uri : {NoURI}]

\* the documents of a partner that publishes operations among ops
SessionProfiles(ops) ==
    [code : ProfileCodes,
     impls : SeqsUpTo(SessionImplements(ops), MaxSessionImpl)]

\* what the capability-discovery GET gives back
DiscoveryResults(ops) ==
    {[t |-> "ConnectionError", wf |-> FALSE, doc |-> NoProfile],
     [t |-> "body", wf |-> FALSE, doc |-> NoProfile]}
    \cup {[t |-> "body", wf |-> TRUE, doc |-> d] : d \in SessionProfiles(ops)}

NoDiscovery == [made |-> FALSE, t |-> "", wf |-> FALSE, code |-> 0]

Discovered(res) ==
    [made |-> TRUE, t |-> res.t, wf |-> res.wf, code |-> res.doc.code]

(***************************************************************************)
(* State.                                                                  *)
(***************************************************************************)
VARIABLES
    params,       \* Context._params
    maxTries,     \* Context.MAX_FETCH_TRIES
    pc,           \* "idle", or the position inside dispatch_request
    call,         \* the API call in progress or last finished
    req,          \* the operation class of the request being dispatched
    ntry,         \* dispatch_request's ntry
    nsent,        \* HTTP requests sent by the current dispatch_request
    resps,        \* what the transport gave back to the current dispatch
    root,         \* dispatch_request's root
    outcome,      \* how the last call ended
    discoveries,  \* capability-discovery requests sent by the session
    discovery,    \* the discovery response received by the current call
    profile,      \* the capability document get_params is applied to
    api,          \* the entity method in progress or last finished
    reqargs,      \* the attributes of the request being dispatched
    wire,         \* the last HTTP request the current dispatch sent
    ndisp,        \* dispatch_request calls made by the current call
    result,       \* how the last entity method ended
    ctsresp,      \* search: the TextSearchResponse of the search step
    order,        \* the Order the caller holds
    useObjects    \* Context._use_objects

\* no entity method: its name, its position, and its arguments
NoApi == [name |-> "none", stage |-> "idle", offset |-> 0, limit |-> 0,
          count |-> FALSE]

NoCts == [tan |-> NoTan, count |-> 0]

\* no order yet; of a live order: its backing document (Order._data), and
\* the last lifecycle step that succeeded on it
NoOrder == [live |-> FALSE, data |-> NoRoot, phase |-> "none"]

apiVars == <<api, reqargs, wire, ndisp, result, ctsresp, order>>

vars == <<params, maxTries, pc, call, req, ntry, nsent, resps, root, outcome,
          discoveries, discovery, profile, api, reqargs, wire, ndisp, result,
          ctsresp, order, useObjects>>

\* the session after Context(url, userid, passwd, use_objects = m), for some
\* m in modes
Constructed(modes) ==
    /\ useObjects \in modes
    /\ params = None
    /\ maxTries \in 0..MaxBudget
    /\ pc = "idle"
    /\ call = "none"
    /\ req = "GetProfile"
    /\ ntry = 0
    /\ nsent = 0
    /\ resps = <<>>
    /\ root = NoRoot
    /\ outcome = Pending
    /\ discoveries = 0
    /\ discovery = NoDiscovery
    /\ profile = NoProfile
    /\ api = NoApi
    /\ reqargs = NoArgs
    /\ wire = NoWire
    /\ ndisp = 0
    /\ result = Pending
    /\ ctsresp = NoCts
    /\ order = NoOrder

\* use_objects left at its default
Init == Constructed({TRUE})

\* use_objects given either way
InitRead == Constructed(BOOLEAN)

(***************************************************************************)
(* Context.get(clsname), with the _load_params and get_params it calls.    *)
(***************************************************************************)
\* _load_params goes on to discovery only when _params is None
NeedsLoad_Always(p) == TRUE

NeedsLoad(p) == p.isNone

\* the class Context.get returns for clsname
GetClass(clsname) ==
    IF clsname \in {"Product", "Order"} THEN clsname ELSE "None"

Get(clsname, ops) ==
    /\ pc = "idle"
    /\ api.stage = "idle"
    /\ api' = NoApi
    /\ reqargs' = NoArgs
    /\ wire' = NoWire
    /\ ndisp' = 0
    /\ result' = Pending
    /\ ctsresp' = NoCts
    /\ UNCHANGED order
    /\ call' = "get"
    /\ req' = "GetProfile"
    /\ ntry' = 0
    /\ nsent' = 0
    /\ resps' = <<>>
    /\ root' = NoRoot
    /\ pc' = "idle"
    /\ UNCHANGED <<maxTries, profile, useObjects>>
    /\ IF ~NeedsLoad(params)
       THEN /\ outcome' = ReturnClass(GetClass(clsname))
            /\ discovery' = NoDiscovery
            /\ UNCHANGED <<params, discoveries>>
       ELSE /\ discoveries < MaxDiscoveries
            /\ discoveries' = discoveries + 1
            /\ \E res \in DiscoveryResults(ops) :
                  /\ discovery' = Discovered(res)
                  /\ IF res.t = "ConnectionError"
                     THEN /\ outcome' = Raise("ConnectionError")
                          /\ UNCHANGED params
                     ELSE IF ~res.wf
                     THEN /\ outcome' = Raise("XMLSyntaxError")
                          /\ UNCHANGED params
                     ELSE LET r == get_params(res.doc, BaseUrl) IN
                          IF r.ok
                          THEN /\ params' = Dict(r.bindings)
                               /\ outcome' = ReturnClass(GetClass(clsname))
                          ELSE /\ outcome' = Raise("AttributeError")
                               /\ UNCHANGED params

(***************************************************************************)
(* Context.dispatch_request(request).                                      *)
(***************************************************************************)
\* the checks before the loop, in the order the code makes them; `in` on a
\* table that is None raises TypeError.  Pending: the loop is entered
BeginOutcome_TriesFirst(p, r, max) ==
    IF p.isNone
    THEN Raise("TypeError")
    ELSE IF max <= 0
    THEN VeloConnectException(ERR_INVALID_MAX_TRIES)
    ELSE IF OperationName(r) \notin DOMAIN p.dict
    THEN VeloConnectException(ERR_NOT_SUPPORTED)
    ELSE Pending

BeginOutcome_NegativeOnly(p, r, max) ==
    IF p.isNone
    THEN Raise("TypeError")
    ELSE IF OperationName(r) \notin DOMAIN p.dict
    THEN VeloConnectException(ERR_NOT_SUPPORTED)
    ELSE IF max < 0
    THEN VeloConnectException(ERR_INVALID_MAX_TRIES)
    ELSE Pending

BeginOutcome(p, r, max) ==
    IF p.isNone
    THEN Raise("TypeError")
    ELSE IF OperationName(r) \notin DOMAIN p.dict
    THEN VeloConnectException(ERR_NOT_SUPPORTED)
    ELSE IF max <= 0
    THEN VeloConnectException(ERR_INVALID_MAX_TRIES)
    ELSE Pending

\* dispatch_request is entered with request r, whose attributes are a
Begin(r, a) ==
    /\ pc = "idle"
    /\ call' = "dispatch"
    /\ req' = r
    /\ reqargs' = a
    /\ wire' = NoWire
    /\ ntry' = 0
    /\ nsent' = 0
    /\ resps' = <<>>
    /\ root' = NoRoot
    /\ discovery' = NoDiscovery
    /\ UNCHANGED <<params, maxTries, discoveries, profile, useObjects>>
    /\ outcome' = BeginOutcome(params, r, maxTries)
    /\ pc' = IF BeginOutcome(params, r, maxTries) = Pending
             THEN "loop" ELSE "idle"

\* a request dispatched on its own, outside the entity methods
DispatchBegin(r) ==
    /\ api.stage = "idle"
    /\ Begin(r, NoArgs)
    /\ api' = NoApi
    /\ ndisp' = 1
    /\ result' = Pending
    /\ ctsresp' = NoCts
    /\ UNCHANGED order

\* while ntry < self.MAX_FETCH_TRIES
LoopCond_OneMore(n, max) == n <= max

LoopCond(n, max) == n < max

\* if ntry == self.MAX_FETCH_TRIES
TriesReached_OffByOne(n, max) == n >= max - 1

TriesReached(n, max) == n = max

\* the request is rendered for the bound transport
Renders(cls, binding) ==
    IF binding = "XML-POST" THEN HasXml(cls) ELSE HasUrlArgs(cls)

\* the failures of an attempt that the loop catches and retries: only the
\* XMLSyntaxError of etree.fromstring; the HTTP exchange is outside the try
Caught_AnyFailure(res) == res.t = "ConnectionError" \/ ~fromstring(res).ok

Caught(res) == res.t = "body" /\ ~fromstring(res).ok

\* one pass of the loop body: render, send, parse
Attempt ==
    /\ pc = "loop"
    /\ LoopCond(ntry, maxTries)
    /\ UNCHANGED <<params, maxTries, call, req, discoveries, discovery, profile>>
    /\ UNCHANGED <<api, reqargs, ndisp, result, ctsresp, order, useObjects>>
    /\ LET binding == params.dict[OperationName(req)][1]
           uri == params.dict[OperationName(req)][2] IN
       IF ~Renders(req, binding)
       THEN /\ outcome' = Raise("NotImplementedError")
            /\ pc' = "idle"
            /\ UNCHANGED <<ntry, nsent, resps, root, wire>>
       ELSE \E res \in TransportResults(req, nsent + 1) :
               /\ wire' = IF binding = "XML-POST"
                          THEN query_post(uri, req, reqargs)
                          ELSE query_get(uri, req, reqargs)
               /\ nsent' = nsent + 1
               /\ resps' = Append(resps, res)
               /\ IF Caught(res)
                  THEN /\ ntry' = ntry + 1
                       /\ pc' = "loop"
                       /\ UNCHANGED <<root, outcome>>
                  ELSE IF res.t = "ConnectionError"
                  THEN /\ outcome' = Raise("ConnectionError")
                       /\ pc' = "idle"
                       /\ UNCHANGED <<ntry, root>>
                  ELSE /\ root' = fromstring(res).root
                       /\ pc' = "after"
                       /\ UNCHANGED <<ntry, outcome>>

\* the loop condition fails
LoopExit ==
    /\ pc = "loop"
    /\ ~LoopCond(ntry, maxTries)
    /\ pc' = "after"
    /\ UNCHANGED <<params, maxTries, call, req, ntry, nsent, resps, root,
                   outcome, discoveries, discovery, profile>>
    /\ UNCHANGED <<apiVars, useObjects>>

\* after the loop: retry exhaustion, then the response code
CheckResult ==
    /\ pc = "after"
    /\ pc' = "idle"
    /\ UNCHANGED <<params, maxTries, call, req, ntry, nsent, resps, root,
                   discoveries, discovery, profile>>
    /\ UNCHANGED <<apiVars, useObjects>>
    /\ outcome' =
          IF TriesReached(ntry, maxTries)
          THEN VeloConnectException(ERR_MAX_TRIES_REACHED)
          ELSE IF root = NoRoot
          THEN Raise("UnboundLocalError")
          ELSE IF Len(root.codes) # 1
          THEN Raise("ValueError")
          ELSE IF root.codes[1] # ERR_NONE
          THEN VeloConnectException(root.codes[1])
          ELSE Return(root)

(***************************************************************************)
(* The entity methods: each renders requests and hands them to             *)
(* dispatch_request.  The classes they are called on come from Context.get,*)
(* so the binding table is resolved when they run.                         *)
(***************************************************************************)
dispatchVars == <<params, maxTries, pc, call, req, ntry, nsent, resps, root,
                  outcome, discoveries, discovery, profile, reqargs, wire,
                  useObjects>>

\* the field descriptors evaluated on a document: base.String on
\* vct:TransactionID gives its text, base.Integer on vcc:TotalCount its integer
StringTan(r) == r.data.tan

IntegerCount(r) == r.data.count

\* the method named name, waiting for its first dispatch
Method(name) == [NoApi EXCEPT !.name = name, !.stage = "wait"]

\* method m is entered and calls dispatch_request on request r
Execute(m, r, a) ==
    /\ api.stage = "idle"
    /\ Begin(r, a)
    /\ api' = m
    /\ ndisp' = 1
    /\ result' = Pending
    /\ ctsresp' = NoCts

\* a method of a class that Context.get returned
Call(m, r, a) ==
    /\ ~params.isNone
    /\ Execute(m, r, a)

\* the dispatch the entity method name waits for has ended
Returned(name) == api.name = name /\ api.stage = "wait" /\ pc = "idle"

\* Order.create: Order(dispatch_request(CreateOrder), ctx)
OrderCreate ==
    /\ Call(Method("create"), "CreateOrder", NoArgs)
    /\ UNCHANGED order

OrderCreateReturn ==
    /\ Returned("create")
    /\ api' = [api EXCEPT !.stage = "idle"]
    /\ UNCHANGED <<dispatchVars, ndisp, ctsresp>>
    /\ IF outcome.kind = "return"
       THEN /\ order' = [live |-> TRUE, data |-> outcome.value,
                         phase |-> "active"]
            /\ result' = ReturnClass("Order")
       ELSE /\ result' = outcome
            /\ UNCHANGED order

\* Order.add_lines: self._data = uo.execute(self.tan, lines)
OrderAddLines ==
    /\ order.live
    /\ Call(Method("add_lines"), "UpdateOrder",
            [NoArgs EXCEPT !.tan = StringTan(order.data)])
    /\ UNCHANGED order

\* self._data after `self._data = x.execute(...)`: the assignment runs only
\* when execute returns; an exception leaves the statement before it
BackingData_Always(data, out) == out.value

BackingData(data, out) == IF out.kind = "return" THEN out.value ELSE data

OrderAddLinesReturn ==
    /\ Returned("add_lines")
    /\ api' = [api EXCEPT !.stage = "idle"]
    /\ UNCHANGED <<dispatchVars, ndisp, ctsresp>>
    /\ order' = [order EXCEPT !.data = BackingData(order.data, outcome)]
    /\ result' = IF outcome.kind = "return" THEN ReturnClass("None")
                 ELSE outcome

\* Order.finish: self._data = fo.execute(self.tan); return self
OrderFinish ==
    /\ order.live
    /\ Call(Method("finish"), "FinishOrder",
            [NoArgs EXCEPT !.tan = StringTan(order.data)])
    /\ UNCHANGED order

OrderFinishReturn ==
    /\ Returned("finish")
    /\ api' = [api EXCEPT !.stage = "idle"]
    /\ UNCHANGED <<dispatchVars, ndisp, ctsresp>>
    /\ order' = [order EXCEPT !.data = BackingData(order.data, outcome),
                              !.phase = IF outcome.kind = "return"
                                        THEN "finished" ELSE order.phase]
    /\ result' = IF outcome.kind = "return" THEN ReturnClass("Order")
                 ELSE outcome

\* e.code of a caught exception
ExceptionCode(e) == e.code

\* the failures of the rollback dispatch that rollback does not re-raise
Swallowed_AnyVelo(e) == e.exc = "VeloConnectException"

Swallowed(e) ==
    e.exc = "VeloConnectException" /\ ~(ExceptionCode(e) # ERR_NOT_SUPPORTED)

\* TransactionMixin.rollback, on the order
OrderRollback ==
    /\ order.live
    /\ Call(Method("rollback"), "Rollback",
            [NoArgs EXCEPT !.tan = StringTan(order.data)])
    /\ UNCHANGED order

OrderRollbackReturn ==
    /\ Returned("rollback")
    /\ api' = [api EXCEPT !.stage = "idle"]
    /\ UNCHANGED <<dispatchVars, ndisp, ctsresp>>
    /\ IF outcome.kind = "return"
       THEN /\ order' = [order EXCEPT !.phase = "rolledback"]
            /\ result' = ReturnClass("None")
       ELSE /\ result' = IF Swallowed(outcome) THEN ReturnClass("None")
                         ELSE outcome
            /\ UNCHANGED order

(***************************************************************************)
(* Product.search and Product.search_read.                                 *)
(***************************************************************************)
Searches == {"search", "search_read"}

\* the offsets and limits callers pass: the defaults' signs and the others
Offsets == {0, 1}
Limits == {0 - MaxLimit, 0, MaxLimit}

\* TextSearchResponse(root): the fields tan and count of the response
TextSearchResponse(r) == [tan |-> StringTan(r), count |-> IntegerCount(r)]

ReturnInt(n) == [Pending EXCEPT !.kind = "return", !.cls = "int", !.n = n]

ReturnList(n) == [Pending EXCEPT !.kind = "return", !.cls = "list", !.n = n]

\* sr = SearchResult(cls._ctx) / sr = SearchReadResult(cls._ctx)
ResultRequest(name) ==
    IF name = "search" THEN "SearchResult" ELSE "SearchReadResult"

\* the returns before the result request: the count when the flag is on, an
\* empty list when the total is zero.  Pending: the method goes on
SearchShortcut_NoZeroCheck(flag, total) ==
    IF flag THEN ReturnInt(total) ELSE Pending

SearchShortcut(flag, total) ==
    IF flag THEN ReturnInt(total)
    ELSE IF total = 0 THEN ReturnList(0)
    ELSE Pending

\* if limit <= 0: limit = ctsresp.count
EffectiveLimit_NegativeOnly(limit, total) == IF limit < 0 THEN total ELSE limit

EffectiveLimit(limit, total) == IF limit <= 0 THEN total ELSE limit

\* cts.execute(keywords), the search step
ProductSearch(name, offset, limit, count) ==
    /\ Call([Method(name) EXCEPT !.offset = offset, !.limit = limit,
                                 !.count = count],
            "CreateTextSearch", NoArgs)
    /\ UNCHANGED order

\* the search step has ended: return early, or execute the result request
SearchStep ==
    /\ api.name \in Searches
    /\ api.stage = "wait"
    /\ pc = "idle"
    /\ UNCHANGED order
    /\ IF outcome.kind # "return"
       THEN /\ result' = outcome
            /\ api' = [api EXCEPT !.stage = "idle"]
            /\ UNCHANGED <<dispatchVars, ndisp, ctsresp>>
       ELSE LET resp == TextSearchResponse(outcome.value) IN
            /\ ctsresp' = resp
            /\ IF SearchShortcut(api.count, resp.count) # Pending
               THEN /\ result' = SearchShortcut(api.count, resp.count)
                    /\ api' = [api EXCEPT !.stage = "idle"]
                    /\ UNCHANGED <<dispatchVars, ndisp>>
               ELSE /\ Begin(ResultRequest(api.name),
                             [tan |-> resp.tan, offset |-> api.offset,
                              limit |-> EffectiveLimit(api.limit, resp.count)])
                    /\ api' = [api EXCEPT !.stage = "result"]
                    /\ ndisp' = ndisp + 1
                    /\ result' = Pending

(***************************************************************************)
(* Item nodes and their mapping to products.  A node is named by its       *)
(* position among the vco:ItemDetail children of the root.                 *)
(***************************************************************************)
\* root.xpath('/<rootname>/vco:ItemDetail'): an absolute path, so it selects
\* the children of the root element only when the root has that name
ItemNodes(r, rootname) ==
    IF r.data.name = rootname
    THEN [i \in 1..Len(r.data.items) |-> i]
    ELSE <<>>

\* Product(item).replacement is set: the node has a replacement identifier
Replacement(r, node) == r.data.items[node]

\* _format_item: `not product.replacement and product or None`
format_item_NoFilter(replacement) == "Product"

format_item(replacement) == IF ~replacement THEN "Product" ELSE "None"

\* _format_items from node i on: the nodes whose product is kept, in order
RECURSIVE format_items(_, _, _)
format_items(r, nodes, i) ==
    IF i > Len(nodes) THEN <<>>
    ELSE (IF format_item(Replacement(r, nodes[i])) # "None"
          THEN <<nodes[i]>> ELSE <<>>)
         \o format_items(r, nodes, i + 1)

ReturnNodes(nodes) ==
    [Pending EXCEPT !.kind = "return", !.cls = "list", !.n = Len(nodes),
                    !.list = nodes]

\* if not self._ctx._use_objects: return items
\* return self._format_items(items)
ItemList(r, rootname, mapped) ==
    IF ~mapped
    THEN ReturnNodes(ItemNodes(r, rootname))
    ELSE ReturnNodes(format_items(r, ItemNodes(r, rootname), 1))

\* sr.execute has ended: SearchResult gives the identifiers' texts,
\* SearchReadResult the item nodes or their products
SearchReturn ==
    /\ api.name \in Searches \cup {"read_result"}
    /\ api.stage = "result"
    /\ pc = "idle"
    /\ api' = [api EXCEPT !.stage = "idle"]
    /\ UNCHANGED <<dispatchVars, ndisp, ctsresp, order>>
    /\ result' = IF outcome.kind # "return" THEN outcome
                 ELSE IF req = "SearchResult"
                 THEN ReturnList(Len(outcome.value.data.items))
                 ELSE ItemList(outcome.value, "SearchResultResponse",
                               useObjects)

\* SearchReadResult.execute(tan, offset, limit), called on a request the
\* caller built
ReadResult(tan, offset, limit) ==
    /\ Execute([Method("read_result") EXCEPT !.stage = "result",
                                             !.offset = offset,
                                             !.limit = limit],
               "SearchReadResult",
               [tan |-> tan, offset |-> offset, limit |-> limit])
    /\ UNCHANGED order

\* Product.read: gidl.execute(codes)
ProductRead ==
    /\ Call(Method("read"), "GetItemDetailsList", NoArgs)
    /\ UNCHANGED order

ProductReadReturn ==
    /\ Returned("read")
    /\ api' = [api EXCEPT !.stage = "idle"]
    /\ UNCHANGED <<dispatchVars, ndisp, ctsresp, order>>
    /\ result' = IF outcome.kind # "return" THEN outcome
                 ELSE ItemList(outcome.value, "GetItemDetailsListResponse",
                               useObjects)

(***************************************************************************)
(* GetItemDetails.execute, called on a request the caller built.           *)
(***************************************************************************)
\* len(root.xpath('/vco:GetItemDetailsResponse')): an absolute path selects
\* the document's root element when it has that name, and nothing else
Matches(r) == IF r.data.name = "GetItemDetailsResponse" THEN 1 ELSE 0

ReturnItem(r) == [Pending EXCEPT !.kind = "return", !.cls = "item", !.value = r]

ReturnProduct(r) ==
    [Pending EXCEPT !.kind = "return", !.cls = "Product", !.value = r]

ItemDetails ==
    /\ Execute(Method("item"), "GetItemDetails", NoArgs)
    /\ UNCHANGED order

ItemDetailsReturn ==
    /\ Returned("item")
    /\ api' = [api EXCEPT !.stage = "idle"]
    /\ UNCHANGED <<dispatchVars, ndisp, ctsresp, order>>
    /\ result' =
          IF outcome.kind # "return" THEN outcome
          ELSE IF Matches(outcome.value) > 1
          THEN VeloConnectException(ERR_MULTIPLE_ELEMENT_FOUND)
          ELSE IF Matches(outcome.value) = 0
          THEN VeloConnectException(ERR_ELEMENT_NOT_FOUND)
          ELSE IF ~useObjects
          THEN ReturnItem(outcome.value)
          ELSE IF format_item(outcome.value.data.repl) = "None"
          THEN ReturnClass("None")
          ELSE ReturnProduct(outcome.value)

NextCatalog ==
    \/ \E clsname \in {"Product"} : Get(clsname, CatalogNames)
    \/ \E name \in Searches, offset \in Offsets, limit \in Limits,
          count \in BOOLEAN : ProductSearch(name, offset, limit, count)
    \/ SearchStep
    \/ SearchReturn
    \/ ItemDetails
    \/ ItemDetailsReturn
    \/ Attempt
    \/ LoopExit
    \/ CheckResult

\* a caller that works with the catalogue only
SpecCatalog == Init /\ [][NextCatalog]_vars

\* the caller sets MAX_FETCH_TRIES between two calls
Configure(n) ==
    /\ pc = "idle"
    /\ api.stage = "idle"
    /\ n # maxTries
    /\ maxTries' = n
    /\ call' = "configure"
    /\ req' = "GetProfile"
    /\ ntry' = 0
    /\ nsent' = 0
    /\ resps' = <<>>
    /\ root' = NoRoot
    /\ outcome' = Pending
    /\ discovery' = NoDiscovery
    /\ api' = NoApi
    /\ reqargs' = NoArgs
    /\ wire' = NoWire
    /\ ndisp' = 0
    /\ result' = Pending
    /\ ctsresp' = NoCts
    /\ UNCHANGED <<params, pc, discoveries, profile, order, useObjects>>

NextRead ==
    \/ \E clsname \in {"Product"} : Get(clsname, ReadNames)
    \/ ItemDetails
    \/ ItemDetailsReturn
    \/ ProductRead
    \/ ProductReadReturn
    \/ \E tan \in Tans : ReadResult(tan, 0, MaxLimit)
    \/ SearchReturn
    \/ Attempt
    \/ LoopExit
    \/ CheckResult

\* a caller that retrieves items, in mapped or in raw mode
SpecRead == InitRead /\ [][NextRead]_vars

NextOrder ==
    \/ \E n \in 0..MaxBudget : Configure(n)
    \/ \E clsname \in {"Order"} : Get(clsname, OrderNames)
    \/ OrderCreate
    \/ OrderCreateReturn
    \/ OrderAddLines
    \/ OrderAddLinesReturn
    \/ OrderFinish
    \/ OrderFinishReturn
    \/ OrderRollback
    \/ OrderRollbackReturn
    \/ Attempt
    \/ LoopExit
    \/ CheckResult

\* a caller that works with orders only
SpecOrder == Init /\ [][NextOrder]_vars

Next ==
    \/ \E clsname \in {"Product", "Order", "Other"} : Get(clsname, SessionOps)
    \/ \E r \in Operations : DispatchBegin(r)
    \/ Attempt
    \/ LoopExit
    \/ CheckResult

Spec == Init /\ [][Next]_vars

(***************************************************************************)
(* get_params as a function of the capability document.                    *)
(***************************************************************************)
InitProfile ==
    /\ params = None
    /\ maxTries = MaxBudget
    /\ pc = "idle"
    /\ call = "none"
    /\ req = "GetProfile"
    /\ ntry = 0
    /\ nsent = 0
    /\ resps = <<>>
    /\ root = NoRoot
    /\ outcome = Pending
    /\ discoveries = 0
    /\ discovery = NoDiscovery
    /\ profile \in Profiles(MaxImpl)
    /\ useObjects = TRUE
    /\ api = NoApi
    /\ reqargs = NoArgs
    /\ wire = NoWire
    /\ ndisp = 0
    /\ result = Pending
    /\ ctsresp = NoCts
    /\ order = NoOrder

\* self._params = gp.get_params(), on the document profile
LoadProfile ==
    /\ call = "none"
    /\ call' = "get"
    /\ discoveries' = discoveries + 1
    /\ discovery' = [made |-> TRUE, t |-> "body", wf |-> TRUE,
                     code |-> profile.code]
    /\ UNCHANGED <<maxTries, pc, req, ntry, nsent, resps, root, profile>>
    /\ UNCHANGED <<apiVars, useObjects>>
    /\ LET r == get_params(profile, BaseUrl) IN
       IF r.ok
       THEN params' = Dict(r.bindings) /\ outcome' = ReturnClass("Product")
       ELSE outcome' = Raise("AttributeError") /\ UNCHANGED params

NextProfile == LoadProfile

SpecProfile == InitProfile /\ [][NextProfile]_vars

(***************************************************************************)
(* Properties of the dispatcher (under Spec).                              *)
(***************************************************************************)
AllMalformed(rs) == \A i \in 1..Len(rs) : Malformed(rs[i])

Envelope(res, code) == res.t = "body" /\ res.wf /\ res.codes = <<code>>

DispatchDone == call = "dispatch" /\ pc = "idle"

\* the dispatch obtained a well-formed envelope with exactly one response code
GotEnvelope == call = "dispatch" /\ root # NoRoot /\ Len(root.codes) = 1

\* C1: with a retry budget N >= 1, a dispatch that reached the transport and
\* got a malformed body on every attempt has sent exactly N requests and has
\* failed with ERR_MAX_TRIES_REACHED (514); no dispatch sends more than N.
C1_RetryExhaustion ==
    /\ (call = "dispatch" /\ maxTries >= 1) => nsent <= maxTries
    /\ (DispatchDone /\ maxTries >= 1 /\ resps # <<>> /\ AllMalformed(resps))
          => /\ nsent = maxTries
             /\ outcome.kind = "raise"
             /\ outcome.exc = "VeloConnectException"
             /\ outcome.code = 514
             /\ outcome.code = ERR_MAX_TRIES_REACHED

C1_Witness ==
    /\ DispatchDone
    /\ maxTries >= 2
    /\ nsent = maxTries
    /\ Len(resps) = maxTries
    /\ AllMalformed(resps)
    /\ outcome.code = ERR_MAX_TRIES_REACHED

\* C2: when attempts 1..k-1 of a dispatch gave malformed bodies and attempt
\* k <= N gave a well-formed envelope with code 200, the dispatch sent exactly
\* k requests and returned the envelope parsed from attempt k's body.
C2_RetrySuccess ==
    DispatchDone =>
       \A k \in 1..Len(resps) :
          (Envelope(resps[k], ERR_NONE) /\ AllMalformed(SubSeq(resps, 1, k - 1)))
             => /\ k <= maxTries
                /\ nsent = k
                /\ Len(resps) = k
                /\ outcome.kind = "return"
                /\ outcome.value = fromstring(resps[k]).root
                /\ outcome.value.serial = k

C2_Witness ==
    /\ DispatchDone
    /\ maxTries >= 2
    /\ Len(resps) = maxTries
    /\ AllMalformed(SubSeq(resps, 1, maxTries - 1))
    /\ Envelope(resps[maxTries], ERR_NONE)
    /\ outcome.kind = "return"
    /\ outcome.value.serial = maxTries

\* C3 (as claimed): once a dispatch has a well-formed envelope whose code is
\* not 200, it sends no further request and fails with a VeloConnectException
\* carrying that code.
C3_ProtocolErrorNotRetried ==
    (GotEnvelope /\ root.codes[1] # ERR_NONE)
       => /\ nsent = root.serial
          /\ pc = "idle" => /\ outcome.kind = "raise"
                            /\ outcome.exc = "VeloConnectException"
                            /\ outcome.code = root.codes[1]

\* C4: for a well-formed envelope, dispatch returns exactly when the code is
\* 200, and then returns the parsed envelope as it is; for a catalogued code
\* other than 200 it raises VeloConnectException with that code and that
\* code's message from ERR_CODES (410: 'Unknown user.').
C4_CodeMapping ==
    (DispatchDone /\ GotEnvelope) =>
       LET c == root.codes[1] IN
       /\ (outcome.kind = "return") <=> (c = 200)
       /\ c = 200 => /\ outcome.value = root
                     /\ outcome.value = fromstring(resps[Len(resps)]).root
       /\ (c # 200 /\ c \in DOMAIN ERR_CODES)
             => /\ outcome.kind = "raise"
                /\ outcome.exc = "VeloConnectException"
                /\ outcome.code = c
                /\ outcome.msg = [text |-> ERR_CODES[c], code |-> c]
       /\ c = 410 => outcome.msg.text = "Unknown user."

C4_Witness ==
    /\ DispatchDone
    /\ GotEnvelope
    /\ root.codes[1] = 410
    /\ outcome.exc = "VeloConnectException"
    /\ outcome.code = 410

\* C5 (as claimed): a well-formed envelope whose code is neither 200 nor in
\* ERR_CODES makes dispatch fail with a VeloConnectException carrying that code.
C5_UncataloguedCode ==
    (DispatchDone /\ GotEnvelope /\ root.codes[1] # ERR_NONE
       /\ root.codes[1] \notin DOMAIN ERR_CODES)
       => /\ outcome.kind = "raise"
          /\ outcome.exc = "VeloConnectException"
          /\ outcome.code = root.codes[1]

(***************************************************************************)
(* Properties of the binding table built by get_params (under SpecProfile).*)
(***************************************************************************)
TableBuilt == call = "get" /\ ~params.isNone

IsXml(impl) == impl.binding \in XmlBindings

\* the positions of the document's entries for operation name op
EntriesOf(op) == {i \in 1..Len(profile.impls) : profile.impls[i].op = op}

FirstOf(op) == CHOOSE i \in EntriesOf(op) : \A j \in EntriesOf(op) : i <= j

\* C6: a capability document that lists both a URL-encoded and an XML-body
\* binding (XML-POST or XML-POST-S) for an operation name, in either order,
\* gives a table that maps the name to the XML-POST transport.
C6_XmlBodyWins ==
    TableBuilt =>
       \A op \in ProfileOps :
          (/\ \E i \in EntriesOf(op) : IsXml(profile.impls[i])
           /\ \E j \in EntriesOf(op) : ~IsXml(profile.impls[j]))
             => /\ op \in DOMAIN params.dict
                /\ params.dict[op][1] = "XML-POST"

C6_Witness ==
    /\ TableBuilt
    /\ \E op \in ProfileOps : \E i, j \in EntriesOf(op) :
          /\ i < j
          /\ IsXml(profile.impls[i])
          /\ ~IsXml(profile.impls[j])
          /\ params.dict[op][1] = "XML-POST"

\* C7 (as claimed): when all the document's entries for an operation name are
\* of one binding kind (all XML-body, or all URL-encoded), the table keeps the
\* first of them, its endpoint URI included.
C7_FirstSeenWins ==
    TableBuilt =>
       \A op \in ProfileOps :
          (/\ EntriesOf(op) # {}
           /\ \A i, j \in EntriesOf(op) :
                 IsXml(profile.impls[i]) = IsXml(profile.impls[j]))
             => /\ op \in DOMAIN params.dict
                /\ params.dict[op][2] =
                      UriText(profile.impls[FirstOf(op)].uri, BaseUrl)

(***************************************************************************)
(* Properties of the session's resolution (under Spec).                    *)
(***************************************************************************)
\* C8: once the binding table is resolved, no step of any later call sends a
\* capability-discovery request or changes the table.
C8_Memoized ==
    [][~params.isNone => (discoveries' = discoveries /\ params' = params)]_vars

C8_Witness ==
    /\ call = "get"
    /\ pc = "idle"
    /\ ~params.isNone
    /\ ~discovery.made
    /\ discoveries = 1
    /\ outcome.kind = "return"

\* the discovery response is a failure: a transport error, a malformed
\* document, or a document whose response code is not 200
DiscoveryFailed(d) == d.t = "ConnectionError" \/ ~d.wf \/ d.code # ERR_NONE

\* C9 (as claimed): a call whose capability discovery failed (transport
\* error, malformed document, or non-success response code) ends in a failure
\* and leaves the binding table unresolved.
C9_FailedDiscoveryNotCached ==
    (call = "get" /\ pc = "idle" /\ discovery.made /\ DiscoveryFailed(discovery))
       => /\ outcome.kind = "raise"
          /\ params.isNone

\* C10 (as claimed): a dispatch never reads an unresolved table (which raises
\* TypeError); one invoked on an unresolved session has triggered discovery.
C10_DispatchResolves ==
    call = "dispatch"
       => /\ outcome.exc # "TypeError"
          /\ params.isNone => discovery.made

(***************************************************************************)
(* Further properties of the dispatcher (under Spec).                      *)
(***************************************************************************)
Resolved == ~params.isNone

Supported == Resolved /\ OperationName(req) \in DOMAIN params.dict

IsVelo(o, code) ==
    o.kind = "raise" /\ o.exc = "VeloConnectException" /\ o.code = code

\* C11: a dispatch whose operation name has no entry in the resolved binding
\* table fails with ERR_NOT_SUPPORTED (404) and sends no HTTP request.
C11_Unsupported ==
    (DispatchDone /\ Resolved /\ ~Supported)
       => /\ IsVelo(outcome, 404)
          /\ outcome.code = ERR_NOT_SUPPORTED
          /\ nsent = 0
          /\ resps = <<>>
          /\ ~discovery.made

C11_Witness ==
    /\ DispatchDone
    /\ Resolved
    /\ ~Supported
    /\ maxTries = 0
    /\ IsVelo(outcome, ERR_NOT_SUPPORTED)
    /\ nsent = 0

\* C12 (as claimed, on a resolved session): with a retry budget <= 0 a
\* dispatch fails with ERR_INVALID_MAX_TRIES (513) and sends no HTTP request.
C12_ConfigErrorAlways ==
    (DispatchDone /\ Resolved /\ maxTries <= 0)
       => /\ IsVelo(outcome, 513)
          /\ nsent = 0
          /\ ~discovery.made

\* C12 (amended): with a retry budget <= 0, a dispatch whose operation name
\* is in the binding table fails with ERR_INVALID_MAX_TRIES (513); and no
\* dispatch under such a budget sends any HTTP request.
C12_ConfigError ==
    /\ (call = "dispatch" /\ maxTries <= 0)
          => (nsent = 0 /\ resps = <<>> /\ ~discovery.made)
    /\ (DispatchDone /\ Supported /\ maxTries <= 0)
          => /\ IsVelo(outcome, 513)
             /\ outcome.code = ERR_INVALID_MAX_TRIES

C12_Witness ==
    /\ DispatchDone
    /\ Supported
    /\ maxTries <= 0
    /\ IsVelo(outcome, ERR_INVALID_MAX_TRIES)
    /\ nsent = 0

\* C18: a transport-level failure (the HTTP client raising) ends the dispatch
\* at once with that failure, whatever budget remains: it is the last thing
\* the transport gave the call, no request follows it, and only malformed
\* bodies have counted as tries.
C18_TransportErrorNotRetried ==
    call = "dispatch" =>
       /\ \A i \in 1..Len(resps) :
             resps[i].t = "ConnectionError"
                => /\ i = Len(resps)
                   /\ nsent = i
                   /\ pc = "idle"
                   /\ outcome.kind = "raise"
                   /\ outcome.exc = "ConnectionError"
       /\ ntry = Cardinality({i \in 1..Len(resps) : Malformed(resps[i])})

C18_Witness ==
    /\ DispatchDone
    /\ maxTries >= 3
    /\ Len(resps) = 2
    /\ Malformed(resps[1])
    /\ resps[2].t = "ConnectionError"
    /\ nsent = 2
    /\ ntry = 1
    /\ outcome.exc = "ConnectionError"

\* the operations of the catalogue (search, paged results, item lookup,
\* order create / update / view / finish, rollback)
CatalogOperations ==
    {"CreateTextSearch", "SearchResult", "SearchReadResult", "GetItemDetails",
     "GetItemDetailsList", "CreateOrder", "UpdateOrder", "ViewOrder",
     "FinishOrder", "Rollback"}

\* C19 (as claimed): a catalogue operation whose name the table binds, with a
\* budget >= 1, is rendered and transmitted over the bound transport: the
\* dispatch does not fail locally for want of that rendering.
C19_EveryOperationRenders ==
    (DispatchDone /\ req \in CatalogOperations /\ Supported /\ maxTries >= 1)
       => /\ outcome.exc # "NotImplementedError"
          /\ nsent >= 1

(***************************************************************************)
(* Properties of the requests on the wire (under Spec).                    *)
(***************************************************************************)
ImplicitFields == {"BuyersID", "Password", "IsTest"}

\* C16 (as claimed): every request a dispatch has sent, for every operation
\* and on both transports, carries the buyer identifier, the password
\* credential and the test-mode flag.
C16_ImplicitFields ==
    (call = "dispatch" /\ nsent >= 1)
       => /\ wire.method \in {"GET", "POST"}
          /\ ImplicitFields \subseteq wire.fields

(***************************************************************************)
(* Properties of the order methods (under SpecOrder).                      *)
(***************************************************************************)
\* the entity method name has ended
Ended(name) == api.name = name /\ api.stage = "idle"

\* C13: rollback returns normally when its dispatch failed with
\* ERR_NOT_SUPPORTED (404), whether the partner answered 404 or the table has
\* no Rollback entry, and when the dispatch succeeded; every other failure of
\* the dispatch (500, 514, any other code, a transport error) is the failure
\* rollback ends with.
C13_RollbackTolerance ==
    Ended("rollback") =>
       /\ req = "Rollback" /\ call = "dispatch" /\ pc = "idle"
       /\ IsVelo(outcome, 404) => result = ReturnClass("None")
       /\ outcome.kind = "return" => result = ReturnClass("None")
       /\ (outcome.kind = "raise" /\ ~IsVelo(outcome, 404)) => result = outcome
       /\ root.codes = <<500>> => IsVelo(result, ERR_INTERNAL)
       /\ (maxTries >= 1 /\ nsent = maxTries /\ AllMalformed(resps))
             => IsVelo(result, ERR_MAX_TRIES_REACHED)

C13_Witness ==
    /\ Ended("rollback")
    /\ nsent >= 1
    /\ root.codes = <<ERR_INTERNAL>>
    /\ IsVelo(outcome, ERR_INTERNAL)
    /\ IsVelo(result, ERR_INTERNAL)

\* the methods of a live order
LifecycleMethods == {"add_lines", "finish", "rollback"}

\* C17 (as claimed): whatever succeeded on the order before, a lifecycle
\* method called on it (its operation bound in the table, budget >= 1) is
\* rendered and sent to the partner, and fails with a protocol error only
\* when the partner's envelope carries that code.
C17_NoLocalEnforcement ==
    (api.name \in LifecycleMethods /\ api.stage = "idle" /\ order.live
       /\ Supported /\ maxTries >= 1)
       => /\ ndisp = 1
          /\ nsent >= 1
          /\ wire # NoWire
          /\ result.exc # "NotImplementedError"
          /\ \A c \in DOMAIN ERR_CODES \ {ERR_MAX_TRIES_REACHED} :
                IsVelo(result, c) => root.codes = <<c>>

(***************************************************************************)
(* Properties of the catalogue methods (under SpecCatalog).                *)
(***************************************************************************)
\* the search has executed its paged-result request
ResultRequested == api.name \in Searches /\ api.stage \in {"result", "idle"}
                   /\ ndisp = 2

\* C14: the paged-result request of search and search_read carries the
\* transaction identifier the search step returned and the caller's offset;
\* its Count is the search step's total T > 0 when the caller's limit is <= 0
\* and the caller's limit when that is > 0.
C14_PaginationSubstitution ==
    ResultRequested =>
       /\ req = IF api.name = "search" THEN "SearchResult"
                ELSE "SearchReadResult"
       /\ ctsresp.count > 0
       /\ reqargs.tan = ctsresp.tan
       /\ reqargs.offset = api.offset
       /\ api.limit <= 0 => reqargs.limit = ctsresp.count
       /\ api.limit > 0 => reqargs.limit = api.limit
       /\ nsent >= 1 =>
             /\ wire.args = reqargs
             /\ {"TransactionID", "StartIndex", "Count"} \subseteq wire.fields

C14_Witness ==
    /\ ResultRequested
    /\ api.name = "search_read"
    /\ api.limit = 0
    /\ api.offset = 1
    /\ ctsresp.count = MaxCount
    /\ nsent >= 1
    /\ wire.args = [tan |-> ctsresp.tan, offset |-> 1, limit |-> MaxCount]
    /\ "Count" \in wire.fields

\* C15 (as claimed): after a successful dispatch, the single-item lookup fails
\* with 460 when the response holds more than one item node, with 461 when it
\* holds none, and returns a result only when it holds exactly one.
C15_Cardinality ==
    (Ended("item") /\ outcome.kind = "return") =>
       /\ Len(outcome.value.data.items) > 1 => IsVelo(result, 460)
       /\ Len(outcome.value.data.items) = 0 => IsVelo(result, 461)
       /\ result.kind = "return" => Len(outcome.value.data.items) = 1

\* C20: search and search_read execute the paged-result request only when the
\* count flag is off and the search step reported a non-zero total; with the
\* flag on they return the total, with a zero total an empty list, and in
\* both cases the search creation is the only request dispatched.
C20_ResultsOnlyWhenNeeded ==
    /\ api.name \in Searches => ndisp \in {1, 2}
    /\ (api.name \in Searches /\ ndisp = 2)
          => /\ ~api.count
             /\ ctsresp.count # 0
             /\ req \in {"SearchResult", "SearchReadResult"}
    /\ (api.name \in Searches /\ ndisp = 1) => req = "CreateTextSearch"
    /\ (api.name \in Searches /\ api.stage = "idle" /\ ndisp = 1
          /\ outcome.kind = "return")
          => /\ api.count \/ outcome.value.data.count = 0
             /\ api.count => result = ReturnInt(outcome.value.data.count)
             /\ (~api.count /\ outcome.value.data.count = 0)
                   => result = ReturnList(0)

C20_Witness ==
    /\ api.name = "search"
    /\ api.stage = "idle"
    /\ ~api.count
    /\ ndisp = 1
    /\ req = "CreateTextSearch"
    /\ outcome.kind = "return"
    /\ outcome.value.data.count = 0
    /\ result = ReturnList(0)

\* add_lines or finish has ended in a failure
UpdateFailed ==
    /\ api.name \in {"add_lines", "finish"}
    /\ api.stage = "idle"
    /\ result.kind = "raise"

\* a step changes the order's backing document only when the dispatch behind
\* create, add_lines or finish returns, and then to the returned envelope
DataReplacedOnSuccess ==
    order'.data # order.data
       => /\ api.name \in {"create", "add_lines", "finish"}
          /\ api.stage = "wait"
          /\ api'.stage = "idle"
          /\ outcome.kind = "return"
          /\ order'.data = outcome.value

\* the step in which the dispatch comes back to add_lines or finish
UpdateReturns ==
    /\ api.name \in {"add_lines", "finish"}
    /\ api.stage = "wait"
    /\ api'.stage = "idle"

\* C21: the order's backing document changes only in the step in which the
\* dispatch behind create, add_lines or finish returns, and becomes the
\* envelope that dispatch returned; the step in which a failed dispatch
\* comes back to add_lines or finish leaves the order as it was and hands
\* the failure to the caller.  So after a failed add_lines or finish the
\* order's transaction identifier is the one the failed request was built
\* with.
C21_StateUnchangedOnError ==
    /\ [](UpdateFailed => /\ order.live
                          /\ order.data # NoRoot
                          /\ StringTan(order.data) = reqargs.tan)
    /\ [][DataReplacedOnSuccess]_vars
    /\ [][UpdateReturns => IF outcome.kind = "return"
                           THEN order'.data = outcome.value
                           ELSE order' = order /\ result' = outcome]_vars

C21_Witness ==
    /\ UpdateFailed
    /\ api.name = "finish"
    /\ order.phase = "finished"
    /\ IsVelo(result, ERR_ILLEGAL_OP)
    /\ nsent >= 1
    /\ StringTan(order.data) = reqargs.tan

(***************************************************************************)
(* Properties of the item retrievals (under SpecRead).                     *)
(***************************************************************************)
\* the batch lookup or the full-detail paged retrieval has got its response
ListRetrieved ==
    /\ api.name \in {"read", "read_result"}
    /\ api.stage = "idle"
    /\ outcome.kind = "return"

\* the positions of the response's item nodes without a replacement identifier
NoReplacement(r) == {i \in 1..Len(r.data.items) : ~r.data.items[i]}

InDocumentOrder(s) == \A i, j \in 1..Len(s) : i < j => s[i] < s[j]

Nodes(s) == {s[i] : i \in 1..Len(s)}

\* C22: in mapped mode the list returned by the batch lookup and by the
\* full-detail paged retrieval holds, in document order, exactly the
\* response's item nodes without a replacement identifier, and the
\* single-item lookup returns None when its matching node has one; in raw
\* mode every node is returned.
C22_ReplacementFiltering ==
    /\ ListRetrieved =>
          /\ result.kind = "return"
          /\ result.cls = "list"
          /\ InDocumentOrder(result.list)
          /\ useObjects => Nodes(result.list) = NoReplacement(outcome.value)
          /\ ~useObjects =>
                Nodes(result.list) = 1..Len(outcome.value.data.items)
    /\ (Ended("item") /\ outcome.kind = "return" /\ result.kind = "return") =>
          /\ (useObjects /\ outcome.value.data.repl)
                => result = ReturnClass("None")
          /\ (useObjects /\ ~outcome.value.data.repl)
                => /\ result.cls = "Product"
                   /\ result.value = outcome.value
          /\ ~useObjects => /\ result.cls = "item"
                            /\ result.value = outcome.value

C22_Witness ==
    /\ ListRetrieved
    /\ api.name = "read"
    /\ useObjects
    /\ outcome.value.data.items = <<TRUE, FALSE>>
    /\ result.list = <<2>>

====
